---- MODULE Spec2Model ----
(***************************************************************************)
(* TaskFlow authentication and authorization core: the in-memory           *)
(* credential store (server/storage.ts), the token issuer, authenticate    *)
(* and the role guards (server/middleware/auth.ts), the error handler      *)
(* (server/middleware/errorHandler.ts) and the route handlers              *)
(* (server/routes.ts).                                                     *)
(*                                                                         *)
(* A request is a process held in a slot of reqs.  Its handler runs one    *)
(* awaited store call per step (pc names the call it is about to make);    *)
(* requests in different slots interleave at these awaits.  Spec runs the  *)
(* authentication flows one request at a time (limit = 1), SpecRoutes the  *)
(* routes behind authenticate one request at a time, SpecConc runs up to   *)
(* MaxInflight requests at once, SpecLimit runs login, refresh and logout   *)
(* for more requests than authLimiter lets through, SpecBodies runs the    *)
(* routes that answer with a user or a task, SpecAdmins runs POST and      *)
(* DELETE /api/users with requests in flight together, and SpecClient runs *)
(* the browser's fetchWithAuth (client/src/lib/api.ts) against whatever    *)
(* the server may answer.  Time is in seconds; the clock advances by the   *)
(* jumps in Jumps.                                                         *)
(*                                                                         *)
(* Strings are kept as strings, with toLowerCase given by a table.  A JWT  *)
(* is the record of what decides its bytes and its verification: payload   *)
(* userId and type, iat, and whether the signature is by JWT_SECRET.       *)
(* firstName, lastName, createdAt and the row ids decide no branch and     *)
(* are left out of the records.                                            *)
(***************************************************************************)
EXTENDS Integers, FiniteSets, Sequences, TLC

\* ---------------------------------------------------------------- bounds
MaxUsers == 3
MaxTicks == 1
MaxTasks == 1
MaxRequests == 3
MaxConcRequests == 3
MaxRouteRequests == 4
MaxInflight == 2
MaxLimitRequests == 22
MaxBodyRequests == 3
MaxAdminRequests == 4
MaxCalls == 2

\* ------------------------------------------------------ program constants
AccessTTL == 900
RefreshTTL == 604800
StoreTTL == 604800
AuthMax == 20
WindowSecs == 900

ADMIN == "ADMIN"
MEMBER == "MEMBER"
UserRole == {ADMIN, MEMBER}

AdminEmail == "admin@taskflow.com"
AdminUsername == "admin"
AdminPassword == "admin123"

\* ------------------------------------------------------------ input sets
Emails == {"a@x.com", "A@x.com", AdminEmail}
Usernames == {"ann", "Ann", AdminUsername}
GoodPassword == "password123"
Passwords == {GoodPassword, AdminPassword}
Absent == ""

Ids == 1..MaxUsers
StaleId == MaxUsers + 1
Slots == 1..MaxInflight
TaskIds == 1..MaxTasks

\* The clock advances by one of these: a second, the life of an access token,
\* the life of a refresh token, and a second more than that.
Jumps == {1, AccessTTL, RefreshTTL, RefreshTTL + 1}

\* The clock when the process starts: later than the life of any token, so
\* that a request may present a token signed before the process started.
Epoch == 3 * RefreshTTL

RECURSIVE TimesAfter(_)
TimesAfter(n) ==
    IF n = 0 THEN {Epoch}
    ELSE TimesAfter(n - 1) \cup {t + d : t \in TimesAfter(n - 1), d \in Jumps}

\* The values of the clock.
Times == TimesAfter(MaxTicks)

\* --------------------------------------------------------- pure functions
\* String.prototype.toLowerCase on the strings of the model.
toLowerCase(s) ==
    CASE s = "A@x.com" -> "a@x.com"
      [] s = "Ann" -> "ann"
      [] OTHER -> s

\* bcrypt.hash / bcrypt.compare: the hash of p verifies p and nothing else.
bcryptHash(p) == <<"bcrypt", p>>
bcryptCompare(p, h) == h = bcryptHash(p)

NoToken == [userId |-> 0, type |-> "none", iat |-> 0, sig |-> "none"]
Garbage == [userId |-> 0, type |-> "garbage", iat |-> 0, sig |-> "bad"]
Forged(u) == [userId |-> u, type |-> "access", iat |-> 0, sig |-> "bad"]

generateAccessToken(userId, t) ==
    [userId |-> userId, type |-> "access", iat |-> t, sig |-> "ok"]

generateRefreshToken(userId, t) ==
    [userId |-> userId, type |-> "refresh", iat |-> t, sig |-> "ok"]

\* exp claim set by jwt.sign's expiresIn.
tokenExp(token) ==
    token.iat + (IF token.type = "refresh" THEN RefreshTTL ELSE AccessTTL)

\* The clock that jwt.sign and jwt.verify read, in whole seconds:
\* Math.floor(Date.now() / 1000), Date.now() being in milliseconds.
NumericDate(ms) == ms \div 1000

\* A verifyToken that takes access tokens only.
verifyToken_accessOnly(token, t) ==
    IF token.sig = "ok" /\ token.type = "access" /\ t < tokenExp(token)
    THEN token.userId ELSE 0

\* A verifyToken that does not look at the exp claim.
verifyToken_noExp(token, t) ==
    IF token.sig = "ok" THEN token.userId ELSE 0

\* verifyToken: decoded.userId, or 0 for null.
verifyToken(token, t) ==
    IF token.sig = "ok" /\ t < tokenExp(token) THEN token.userId ELSE 0

\* The tokens a request may present.  In the Authorization header: a string
\* that is no JWT, a JWT signed with another key, and the JWTs signed with
\* JWT_SECRET for a user id just now, an access token's life ago and a refresh
\* token's life ago.  As the cookie: the refresh tokens this process may have
\* issued, and strings that it has not.
\* A token names a user id that randomUUID has given (the first n of Ids), or
\* StaleId: an id of a store that is gone, which randomUUID never gives again.
RefreshTokensAt(n, t) ==
    {generateRefreshToken(u, i) : u \in 1..n, i \in {x \in Times : x <= t}}

HeaderTokens(n, t) ==
    {Garbage, Forged(1)}
      \cup {generateAccessToken(u, i) :
               u \in (1..n) \cup {StaleId}, i \in {t, t - AccessTTL}}
      \cup {generateRefreshToken(u, i) :
               u \in (1..n) \cup {StaleId}, i \in {t, t - RefreshTTL}}

Headers(n, t) ==
    {[scheme |-> "none", token |-> NoToken], [scheme |-> "Basic", token |-> Garbage]}
      \cup {[scheme |-> "Bearer", token |-> k] : k \in HeaderTokens(n, t)}

\* A refreshToken cookie: none, or a string that is or is not a signed token.
Cookies(n, t) ==
    {NoToken, Garbage, generateAccessToken(1, t)} \cup RefreshTokensAt(n, t)

\* ------------------------------------------------------------------ state
\* initialized, users, tasks, refreshTokens: the fields of MemStorage.
\* seedBy: the request whose store call is inside ensureInitialized (0: none).
\* nextId, nextTask: how many ids randomUUID has given to users and to tasks.
\* now, ticks: the clock, and how often it has advanced.
\* reqs: the requests, by slot.  started, limit, budget: how many requests
\* have arrived, how many may be in flight together, how many may arrive.
\* gone: the ids for which DELETE /api/users/:id has answered 200.
\* hits, resetTime: what authLimiter keeps for the client, the requests it
\* has counted in the open window and the time at which the window closes.
\* client: a call of the browser client's fetchWithAuth, with the fetch it
\* awaits (pc).  localStorage: the accessToken item of the browser.
VARIABLES initialized, seedBy, users, tasks, refreshTokens, nextId, nextTask,
          now, ticks, reqs, started, limit, budget, client, localStorage, gone, hits, resetTime

vars == <<initialized, seedBy, users, tasks, refreshTokens, nextId, nextTask,
          now, ticks, reqs, started, limit, budget, client, localStorage, gone, hits, resetTime>>

\* What a step leaves alone besides the maps of the store and reqs.
env == <<initialized, seedBy, now, ticks, started, limit, budget, client, localStorage, gone, hits, resetTime>>

IdleReq ==
    [kind |-> "none", pc |-> "idle", status |-> 0, message |-> Absent,
     wrote |-> FALSE, seeded |-> FALSE,
     handler |-> FALSE, nexts |-> 0,
     authUid |-> 0, authType |-> "none",
     uid |-> 0, urole |-> Absent,
     email |-> Absent, username |-> Absent, password |-> Absent, role |-> Absent,
     newPassword |-> Absent,
     target |-> 0, assignedTo |-> 0, cookie |-> NoToken,
     fid |-> 0, femail |-> Absent, fusername |-> Absent, fpassword |-> <<>>,
     frole |-> Absent, body |-> {},
     setCookie |-> NoToken, access |-> NoToken, ruid |-> 0, owned |-> {},
     nth |-> 0]

\* ---------------------------------------------------------- MemStorage
getUser(id) == IF id \in DOMAIN users THEN id ELSE 0

\* Array.from(users.values()).find(...): the first match in insertion order,
\* which is the order of the ids.
FirstOf(S) == IF S = {} THEN 0 ELSE CHOOSE x \in S : \A y \in S : x <= y

\* A lookup by email that compares the letters as they are.
getUserByEmail_exact(email) ==
    FirstOf({i \in DOMAIN users : users[i].email = email})

getUserByEmail(email) ==
    FirstOf({i \in DOMAIN users : toLowerCase(users[i].email) = toLowerCase(email)})

getUserByUsername(username) ==
    FirstOf({i \in DOMAIN users :
               toLowerCase(users[i].username) = toLowerCase(username)})

createUser(userData) == users @@ (nextId :> userData)

\* { ...user, ...data }: the fields present in data replace the user's.
updateUser(id, data) ==
    [users EXCEPT ![id] = [f \in DOMAIN users[id] |->
                             IF f \in DOMAIN data THEN data[f] ELSE users[id][f]]]

deleteUser(id) == [i \in DOMAIN users \ {id} |-> users[i]]

createRefreshToken(userId, token, expiresAt) ==
    [k \in DOMAIN refreshTokens \cup {token} |->
       IF k = token THEN [userId |-> userId, expiresAt |-> expiresAt]
       ELSE refreshTokens[k]]

getRefreshToken(token) == token \in DOMAIN refreshTokens

\* A deleteRefreshToken that clears the store when it finds no row.
deleteRefreshToken_orAll(token) ==
    IF token \in DOMAIN refreshTokens
    THEN [k \in DOMAIN refreshTokens \ {token} |-> refreshTokens[k]]
    ELSE <<>>

deleteRefreshToken(token) ==
    [k \in DOMAIN refreshTokens \ {token} |-> refreshTokens[k]]

\* deleteRefreshTokensByUser that deletes no row.
deleteRefreshTokensByUser_none(userId) == refreshTokens

deleteRefreshTokensByUser(userId) ==
    [k \in {x \in DOMAIN refreshTokens : refreshTokens[x].userId # userId} |->
       refreshTokens[k]]

getTask(id) == IF id \in DOMAIN tasks THEN id ELSE 0

createTask(taskData) == tasks @@ (nextTask :> taskData)

updateTask(id, data) ==
    [tasks EXCEPT ![id] = [f \in DOMAIN tasks[id] |->
                             IF f \in DOMAIN data THEN data[f] ELSE tasks[id][f]]]

deleteTask(id) == [i \in DOMAIN tasks \ {id} |-> tasks[i]]

TokensOf(u) == {k \in DOMAIN refreshTokens : refreshTokens[k].userId = u}

\* ------------------------------------------------------------- middleware
\* authenticate that lets the failure of jwt.verify reach the error handler.
authHeaderStatus_throws(header, t) ==
    IF header.scheme # "Bearer" THEN 401
    ELSE IF verifyToken(header.token, t) = 0 THEN 500
    ELSE 0

\* authenticate up to its store call: 0 when it goes on to storage.getUser,
\* else the status it responds with.
authHeaderStatus(header, t) ==
    IF header.scheme # "Bearer" THEN 401
    ELSE IF verifyToken(header.token, t) = 0 THEN 401
    ELSE 0

\* authenticate that answers 404 for a user that is not in the store.
authUserStatus_404(decodedUserId) ==
    IF decodedUserId \notin DOMAIN users THEN 404 ELSE 0

\* authenticate after storage.getUser(decoded.userId): 0 stands for next().
authUserStatus(decodedUserId) ==
    IF getUser(decodedUserId) = 0 THEN 401 ELSE 0

\* authenticate as a whole, on the store as it is: the status it responds with
\* (0: none), the number of calls of next, and the id of the identity attached.
authenticate(header, t) ==
    IF authHeaderStatus(header, t) # 0
    THEN [status |-> authHeaderStatus(header, t), next |-> 0, uid |-> 0]
    ELSE IF authUserStatus(verifyToken(header.token, t)) # 0
    THEN [status |-> authUserStatus(verifyToken(header.token, t)), next |-> 0, uid |-> 0]
    ELSE [status |-> 0, next |-> 1, uid |-> verifyToken(header.token, t)]

\* requireRole(...roles): the status it responds with, 0 for next().
\* uid = 0 stands for a request with no identity attached.
requireRole(roles, uid, urole) ==
    IF uid = 0 THEN 401
    ELSE IF urole \notin roles THEN 403
    ELSE 0

\* requireAdmin without its check of the role.
requireAdmin_anyRole(uid, urole) ==
    IF uid = 0 THEN 401 ELSE 0

requireAdmin(uid, urole) ==
    IF uid = 0 THEN 401
    ELSE IF urole # ADMIN THEN 403
    ELSE 0

\* errorHandler: the status of an AppError is its own, a ZodError is 400.
AppError(statusCode) == statusCode
ZodError == 400

\* ------------------------------------------------------------ scheduling
AdminKinds == {"listUsers", "getUserById", "createUser", "updateUser", "deleteUser"}
TaskKinds == {"listTasks", "createTask", "updateTask", "deleteTask"}
AuthKinds == AdminKinds \cup {"logout", "me", "updateProfile"}
\* The routes with an :id in their path.
ParamKinds == {"getUserById", "updateUser", "deleteUser", "updateTask", "deleteTask"}

Free(s) == reqs[s].pc \in {"idle", "done"}
Busy == {s \in Slots : ~Free(s)}

\* A request is taken by the lowest free slot.
CanStart(s) ==
    /\ s <= limit
    /\ Free(s)
    /\ \A q \in Slots : q < s => ~Free(q)
    /\ started < budget

\* The ids randomUUID has still to give: to the seeded admin and to the
\* requests in flight that create a user.
Creating == {s \in Slots : reqs[s].kind \in {"register", "createUser"} /\ ~Free(s)}
IdsLeft ==
    MaxUsers - (nextId - 1) - Cardinality(Creating)
      - (IF initialized /\ seedBy = 0 THEN 0 ELSE 1)

TaskCreating == {s \in Slots : reqs[s].kind = "createTask" /\ ~Free(s)}
TasksLeft == MaxTasks - (nextTask - 1) - Cardinality(TaskCreating)

\* Every store method first awaits ensureInitialized: the request that found
\* the store uninitialized waits for the seeding, the others go on.
Ready(s) == initialized /\ seedBy # s

NewReq(kind) == [IdleReq EXCEPT !.kind = kind]

\* The response: what the request leaves behind once it has been answered.
Done(r, status) ==
    [IdleReq EXCEPT !.kind = r.kind, !.pc = "done", !.status = status,
                    !.wrote = r.wrote, !.seeded = r.seeded,
                    !.handler = r.handler, !.nexts = r.nexts,
                    !.authUid = r.authUid, !.authType = r.authType,
                    !.uid = r.uid, !.urole = r.urole, !.cookie = r.cookie,
                    !.email = r.email, !.username = r.username,
                    !.owned = r.owned, !.nth = r.nth]

\* errorHandler on an AppError: its status, and its message as the body.
\* (message is kept for the responses whose bodies are compared.)
Thrown(r, statusCode, message) ==
    [Done(r, AppError(statusCode)) EXCEPT !.message = message]

\* The user object a handler holds in a local (from getUser, getUserByEmail
\* or createUser), kept in the request, and the object again.
Holding(r, id, user) ==
    [r EXCEPT !.fid = id, !.femail = user.email, !.fusername = user.username,
              !.fpassword = user.password, !.frole = user.role]

Held(r) ==
    [email |-> r.femail, username |-> r.fusername, password |-> r.fpassword,
     role |-> r.frole]

\* A projection that hands the user object on as it is.
toPublicUser_whole(user) == user

\* MemStorage.toPublicUser, and const { password, ...publicUser } = user in
\* the handlers: the object without its password.
toPublicUser(user) == [f \in DOMAIN user \ {"password"} |-> user[f]]

\* The UserPublic that authenticate builds field by field as req.user.
UserPublic(user) ==
    [email |-> user.email, username |-> user.username, role |-> user.role]

\* The assignee that getTaskWithAssignee and getAllTasks put into a task.
Assignee(id) == IF id \in DOMAIN users THEN {toPublicUser(users[id])} ELSE {}

\* The response with the user objects of its body.
Sent(r, status, objects) == [Done(r, status) EXCEPT !.body = objects]

\* ---------------------------------------------------------------- authLimiter
\* The hits the limiter holds for the client at time t: the counter, while
\* its window is open.
Counted(t) == IF t < resetTime THEN hits ELSE 0

\* The limiter counts the request; a first hit opens a window.
Hit ==
    /\ hits' = Counted(now) + 1
    /\ resetTime' = IF now < resetTime THEN resetTime ELSE now + WindowSecs

\* The request as it arrives at a route of the auth endpoints, numbered
\* (nth) among the requests counted in the open window.
Arrived(kind) == [NewReq(kind) EXCEPT !.nth = Counted(now) + 1]

\* The response of the limiter to a request over max.
TooMany(r) ==
    [Done(r, 429) EXCEPT !.message = "Too many requests, please try again later"]

\* reqs with slot s set to r; the request is marked (wrote) once a step of
\* its handler or middleware has changed a map of the store.  The marks of a
\* request are no state of the program: wrote, seeded (its store call ran
\* the seeding of ensureInitialized) and owned (the refresh tokens its user
\* owned when its login deleted them; for a logout, the rows of its user
\* and of its cookie when its handler began).
Upd(s, r) ==
    reqs' = [reqs EXCEPT ![s] =
               [r EXCEPT !.wrote = reqs[s].wrote \/ users' # users
                                     \/ tasks' # tasks
                                     \/ refreshTokens' # refreshTokens]]

\* ------------------------------------------------- MemStorage.ensureInitialized
EnsureInit(s) ==
    /\ ~Free(s)
    /\ ~initialized
    /\ initialized' = TRUE
    /\ seedBy' = s
    /\ UNCHANGED <<users, tasks, refreshTokens, nextId, nextTask, now, ticks, reqs, started,
                   limit, budget, client, localStorage, gone, hits, resetTime>>

SeedAdmin ==
    /\ seedBy # 0
    /\ users' = createUser([email |-> AdminEmail, username |-> AdminUsername,
                            password |-> bcryptHash(AdminPassword), role |-> ADMIN])
    /\ nextId' = nextId + 1
    /\ seedBy' = 0
    /\ UNCHANGED <<tasks, refreshTokens, nextTask>>
    /\ reqs' = [reqs EXCEPT ![seedBy].seeded = TRUE]
    /\ UNCHANGED <<initialized, now, ticks, started, limit, budget, client, localStorage, gone, hits, resetTime>>

Tick(jumps) ==
    /\ ticks < MaxTicks
    /\ \E d \in jumps : now' = now + d
    /\ ticks' = ticks + 1
    /\ UNCHANGED <<initialized, seedBy, users, tasks, refreshTokens, nextId, nextTask,
                   reqs, started, limit, budget, client, localStorage, gone, hits, resetTime>>

\* --------------------------------------------------- POST /api/auth/register
StartRegister(s) ==
    /\ CanStart(s)
    /\ Hit
    /\ IdsLeft > 0
    /\ \E valid \in BOOLEAN, email \in Emails, username \in Usernames,
          role \in {Absent, ADMIN} :
         reqs' = [reqs EXCEPT ![s] =
                    IF hits' > AuthMax THEN TooMany(Arrived("register"))
                    ELSE IF ~valid THEN Done(Arrived("register"), ZodError)
                    ELSE [Arrived("register") EXCEPT
                            !.pc = "reg_email", !.handler = TRUE, !.email = email,
                            !.username = username, !.password = GoodPassword,
                            !.role = role]]
    /\ started' = started + 1
    /\ UNCHANGED <<initialized, seedBy, users, tasks, refreshTokens, nextId, nextTask,
                   now, ticks, limit, budget, client, localStorage, gone>>

RegisterEmail(s) ==
    /\ reqs[s].pc = "reg_email"
    /\ Ready(s)
    /\ UNCHANGED <<users, tasks, refreshTokens, nextId, nextTask>>
    /\ Upd(s, IF getUserByEmail(reqs[s].email) # 0
              THEN Done(reqs[s], AppError(400))
              ELSE [reqs[s] EXCEPT !.pc = "reg_uname"])
    /\ UNCHANGED env

RegisterUsername(s) ==
    /\ reqs[s].pc = "reg_uname"
    /\ Ready(s)
    /\ UNCHANGED <<users, tasks, refreshTokens, nextId, nextTask>>
    /\ Upd(s, IF getUserByUsername(reqs[s].username) # 0
              THEN Done(reqs[s], AppError(400))
              ELSE [reqs[s] EXCEPT !.pc = "reg_create"])
    /\ UNCHANGED env

\* A register that hands the body to storage.createUser as it came.
RegisterCreate_bodyRole(s) ==
    /\ reqs[s].pc = "reg_create"
    /\ Ready(s)
    /\ users' = createUser([email |-> reqs[s].email, username |-> reqs[s].username,
                            password |-> bcryptHash(reqs[s].password),
                            role |-> IF reqs[s].role = Absent THEN MEMBER
                                     ELSE reqs[s].role])
    /\ nextId' = nextId + 1
    /\ UNCHANGED <<tasks, refreshTokens, nextTask>>
    /\ Upd(s, [Holding(reqs[s], nextId, users'[nextId]) EXCEPT !.pc = "reg_token"])
    /\ UNCHANGED env

\* bcrypt.hash, then storage.createUser with the role MEMBER; of the body
\* only the fields of registerSchema are read.
RegisterCreate(s) ==
    /\ reqs[s].pc = "reg_create"
    /\ Ready(s)
    /\ users' = createUser([email |-> reqs[s].email, username |-> reqs[s].username,
                            password |-> bcryptHash(reqs[s].password),
                            role |-> MEMBER])
    /\ nextId' = nextId + 1
    /\ UNCHANGED <<tasks, refreshTokens, nextTask>>
    /\ Upd(s, [Holding(reqs[s], nextId, users'[nextId]) EXCEPT !.pc = "reg_token"])
    /\ UNCHANGED env

RegisterToken(s) ==
    /\ reqs[s].pc = "reg_token"
    /\ Ready(s)
    /\ refreshTokens' = createRefreshToken(reqs[s].fid,
                                           generateRefreshToken(reqs[s].fid, now),
                                           now + StoreTTL)
    /\ UNCHANGED <<users, tasks, nextId, nextTask>>
    /\ Upd(s, [Sent(reqs[s], 201, {toPublicUser(Held(reqs[s]))}) EXCEPT
                 !.setCookie = generateRefreshToken(reqs[s].fid, now),
                 !.access = generateAccessToken(reqs[s].fid, now),
                 !.ruid = reqs[s].fid])
    /\ UNCHANGED env

\* ------------------------------------------------------ POST /api/auth/login
StartLogin(s) ==
    /\ CanStart(s)
    /\ Hit
    /\ \E valid \in BOOLEAN, email \in Emails,
          password \in Passwords :
         reqs' = [reqs EXCEPT ![s] =
                    IF hits' > AuthMax THEN TooMany(Arrived("login"))
                    ELSE IF ~valid THEN Done(Arrived("login"), ZodError)
                    ELSE [Arrived("login") EXCEPT
                            !.pc = "login_email", !.handler = TRUE,
                            !.email = email, !.password = password]]
    /\ started' = started + 1
    /\ UNCHANGED <<initialized, seedBy, users, tasks, refreshTokens, nextId, nextTask,
                   now, ticks, limit, budget, client, localStorage, gone>>

\* A login that tells an unknown email from a wrong password.
loginCheck_tells(email, password) ==
    LET u == getUserByEmail(email) IN
      IF u = 0
      THEN [status |-> 401, message |-> "User not found", user |-> 0]
      ELSE IF ~bcryptCompare(password, users[u].password)
      THEN [status |-> 401, message |-> "Invalid email or password", user |-> 0]
      ELSE [status |-> 0, message |-> Absent, user |-> u]

\* The checks of the login handler, getUserByEmail and then bcrypt.compare
\* with the user it returned: the AppError thrown, or the user (status 0).
loginCheck(email, password) ==
    LET u == getUserByEmail(email) IN
      IF u = 0
      THEN [status |-> 401, message |-> "Invalid email or password", user |-> 0]
      ELSE IF ~bcryptCompare(password, users[u].password)
      THEN [status |-> 401, message |-> "Invalid email or password", user |-> 0]
      ELSE [status |-> 0, message |-> Absent, user |-> u]

\* A login that revokes the named user's refresh tokens before it has
\* compared the password.
LoginEmail_revokeFirst(s) ==
    /\ reqs[s].pc = "login_email"
    /\ Ready(s)
    /\ refreshTokens' = IF getUserByEmail(reqs[s].email) = 0 THEN refreshTokens
                        ELSE deleteRefreshTokensByUser(getUserByEmail(reqs[s].email))
    /\ UNCHANGED <<users, tasks, nextId, nextTask>>
    /\ LET c == loginCheck(reqs[s].email, reqs[s].password) IN
         Upd(s, IF c.status # 0 THEN Thrown(reqs[s], c.status, c.message)
                ELSE [Holding(reqs[s], c.user, users[c.user]) EXCEPT
                        !.pc = "login_delete"])
    /\ UNCHANGED env

LoginEmail(s) ==
    /\ reqs[s].pc = "login_email"
    /\ Ready(s)
    /\ UNCHANGED <<users, tasks, refreshTokens, nextId, nextTask>>
    /\ LET c == loginCheck(reqs[s].email, reqs[s].password) IN
         Upd(s, IF c.status # 0 THEN Thrown(reqs[s], c.status, c.message)
                ELSE [Holding(reqs[s], c.user, users[c.user]) EXCEPT
                        !.pc = "login_delete"])
    /\ UNCHANGED env

LoginDelete(s) ==
    /\ reqs[s].pc = "login_delete"
    /\ Ready(s)
    /\ refreshTokens' = deleteRefreshTokensByUser(reqs[s].fid)
    /\ UNCHANGED <<users, tasks, nextId, nextTask>>
    /\ Upd(s, [reqs[s] EXCEPT !.pc = "login_token",
                               !.owned = TokensOf(reqs[s].fid)])
    /\ UNCHANGED env

LoginToken(s) ==
    /\ reqs[s].pc = "login_token"
    /\ Ready(s)
    /\ refreshTokens' = createRefreshToken(reqs[s].fid,
                                           generateRefreshToken(reqs[s].fid, now),
                                           now + StoreTTL)
    /\ UNCHANGED <<users, tasks, nextId, nextTask>>
    /\ Upd(s, [Sent(reqs[s], 200, {toPublicUser(Held(reqs[s]))}) EXCEPT
                 !.setCookie = generateRefreshToken(reqs[s].fid, now),
                 !.access = generateAccessToken(reqs[s].fid, now),
                 !.ruid = reqs[s].fid])
    /\ UNCHANGED env

\* ---------------------------------------------------- POST /api/auth/refresh
StartRefresh(s) ==
    /\ CanStart(s)
    /\ Hit
    /\ \E cookie \in Cookies(nextId - 1, now) :
         reqs' = [reqs EXCEPT ![s] =
                    IF hits' > AuthMax THEN TooMany(Arrived("refresh"))
                    ELSE IF cookie = NoToken
                    THEN Done([Arrived("refresh") EXCEPT !.handler = TRUE], AppError(401))
                    ELSE [Arrived("refresh") EXCEPT
                            !.pc = "ref_get", !.handler = TRUE, !.cookie = cookie]]
    /\ started' = started + 1
    /\ UNCHANGED <<initialized, seedBy, users, tasks, refreshTokens, nextId, nextTask,
                   now, ticks, limit, budget, client, localStorage, gone>>

\* A refresh that trusts the expiry of the row and does not verify the token.
RefreshGet_noVerify(s) ==
    /\ reqs[s].pc = "ref_get"
    /\ Ready(s)
    /\ UNCHANGED <<users, tasks, refreshTokens, nextId, nextTask>>
    /\ LET c == reqs[s].cookie IN
         Upd(s, IF ~getRefreshToken(c) THEN Done(reqs[s], AppError(401))
                ELSE IF now > refreshTokens[c].expiresAt
                THEN [reqs[s] EXCEPT !.pc = "ref_delete"]
                ELSE [reqs[s] EXCEPT !.pc = "ref_user", !.fid = c.userId])
    /\ UNCHANGED env

\* getRefreshToken, then the store expiry and verifyToken on the clock.
RefreshGet(s) ==
    /\ reqs[s].pc = "ref_get"
    /\ Ready(s)
    /\ UNCHANGED <<users, tasks, refreshTokens, nextId, nextTask>>
    /\ LET c == reqs[s].cookie IN
         Upd(s, IF ~getRefreshToken(c) THEN Done(reqs[s], AppError(401))
                ELSE IF now > refreshTokens[c].expiresAt
                THEN [reqs[s] EXCEPT !.pc = "ref_delete"]
                ELSE IF verifyToken(c, now) = 0
                THEN [reqs[s] EXCEPT !.pc = "ref_delete"]
                ELSE [reqs[s] EXCEPT !.pc = "ref_user", !.fid = verifyToken(c, now)])
    /\ UNCHANGED env

\* A refresh that answers 401 for an expired token and leaves its row.
RefreshDelete_keep(s) ==
    /\ reqs[s].pc = "ref_delete"
    /\ Ready(s)
    /\ UNCHANGED <<users, tasks, refreshTokens, nextId, nextTask>>
    /\ Upd(s, Done(reqs[s], AppError(401)))
    /\ UNCHANGED env

RefreshDelete(s) ==
    /\ reqs[s].pc = "ref_delete"
    /\ Ready(s)
    /\ refreshTokens' = deleteRefreshToken(reqs[s].cookie)
    /\ UNCHANGED <<users, tasks, nextId, nextTask>>
    /\ Upd(s, Done(reqs[s], AppError(401)))
    /\ UNCHANGED env

\* A refresh that rotates the refresh token.
RefreshUser_rotate(s) ==
    /\ reqs[s].pc = "ref_user"
    /\ Ready(s)
    /\ refreshTokens' =
         IF getUser(reqs[s].fid) = 0 THEN refreshTokens
         ELSE [k \in (DOMAIN refreshTokens \ {reqs[s].cookie})
                        \cup {generateRefreshToken(reqs[s].fid, now)} |->
                 IF k = generateRefreshToken(reqs[s].fid, now)
                 THEN [userId |-> reqs[s].fid, expiresAt |-> now + StoreTTL]
                 ELSE refreshTokens[k]]
    /\ UNCHANGED <<users, tasks, nextId, nextTask>>
    /\ Upd(s, IF getUser(reqs[s].fid) = 0 THEN Done(reqs[s], AppError(401))
              ELSE [Done(reqs[s], 200) EXCEPT
                      !.access = generateAccessToken(reqs[s].fid, now),
                      !.setCookie = generateRefreshToken(reqs[s].fid, now),
                      !.ruid = reqs[s].fid])
    /\ UNCHANGED env

RefreshUser(s) ==
    /\ reqs[s].pc = "ref_user"
    /\ Ready(s)
    /\ UNCHANGED <<users, tasks, refreshTokens, nextId, nextTask>>
    /\ Upd(s, IF getUser(reqs[s].fid) = 0 THEN Done(reqs[s], AppError(401))
              ELSE [Done(reqs[s], 200) EXCEPT
                      !.access = generateAccessToken(reqs[s].fid, now),
                      !.ruid = reqs[s].fid])
    /\ UNCHANGED env

\* --------------------------------------------- routes behind authenticate
\* The request arrives and authenticate runs up to storage.getUser.
StartAuth(s, kinds) ==
    /\ CanStart(s)
    /\ \E kind \in kinds :
       \E header \in Headers(nextId - 1, now),
          target \in (IF kind \in ParamKinds THEN Ids ELSE {0}),
          cookie \in (IF kind = "logout" THEN Cookies(nextId - 1, now)
                      ELSE {NoToken}) :
         /\ kind = "createUser" => IdsLeft > 0
         /\ kind = "createTask" => TasksLeft > 0
         /\ reqs' = [reqs EXCEPT ![s] =
                       LET r == [(IF kind = "logout" THEN Arrived(kind)
                                  ELSE NewReq(kind)) EXCEPT
                                   !.target = target,
                                   !.cookie = cookie]
                       IN IF authHeaderStatus(header, now) # 0
                          THEN Done(r, authHeaderStatus(header, now))
                          ELSE [r EXCEPT !.pc = "auth_user",
                                         !.authUid = verifyToken(header.token, now),
                                         !.authType = header.token.type]]
    /\ started' = started + 1
    /\ UNCHANGED <<initialized, seedBy, users, tasks, refreshTokens, nextId, nextTask,
                   now, ticks, limit, budget, client, localStorage, gone, hits, resetTime>>

\* requireAdmin without the return after its response: next() is called too.
Authed_noReturn(r) ==
    IF r.authUid \notin DOMAIN users THEN Done(r, 401)
    ELSE LET a == [r EXCEPT !.uid = r.authUid, !.urole = users[r.authUid].role,
                            !.nexts = 1]
         IN IF r.kind \in AdminKinds \cup TaskKinds /\ a.urole # ADMIN
            THEN [a EXCEPT !.status = 403, !.handler = TRUE]
            ELSE [a EXCEPT !.handler = TRUE]

\* An authenticate that takes the seeded admin for an ADMIN whatever the
\* store says of its role.
Authed_firstRole(r) ==
    IF authUserStatus(r.authUid) # 0 THEN Done(r, authUserStatus(r.authUid))
    ELSE LET a == [r EXCEPT !.uid = r.authUid,
                            !.urole = IF r.authUid = 1 THEN ADMIN
                                      ELSE users[r.authUid].role,
                            !.nexts = 1]
         IN IF r.kind \in AdminKinds \cup TaskKinds /\ requireAdmin(a.uid, a.urole) # 0
            THEN Done(a, requireAdmin(a.uid, a.urole))
            ELSE [a EXCEPT !.handler = TRUE]

\* authenticate from storage.getUser on, then requireAdmin on the routes that
\* declare it: the response that ends the request, or the request with its
\* identity attached, about to run the route handler.
Authed(r) ==
    IF authUserStatus(r.authUid) # 0 THEN Done(r, authUserStatus(r.authUid))
    ELSE LET a == [r EXCEPT !.uid = r.authUid, !.urole = users[r.authUid].role,
                            !.nexts = 1]
         IN IF r.kind \in AdminKinds \cup TaskKinds /\ requireAdmin(a.uid, a.urole) # 0
            THEN Done(a, requireAdmin(a.uid, a.urole))
            ELSE [a EXCEPT !.handler = TRUE]

AtAuth(s, kind) ==
    /\ reqs[s].pc = "auth_user"
    /\ reqs[s].kind = kind
    /\ Ready(s)
    /\ UNCHANGED <<users, tasks, refreshTokens, nextId, nextTask>>
    /\ UNCHANGED env

\* ----------------------------------------------------- POST /api/auth/logout
AuthLogout(s) ==
    /\ AtAuth(s, "logout")
    /\ LET a == Authed(reqs[s]) IN
         Upd(s, IF a.pc = "done" THEN a
                ELSE IF a.cookie # NoToken
                THEN [a EXCEPT !.pc = "out_token",
                               !.owned = TokensOf(a.uid)
                                           \cup ({a.cookie} \cap DOMAIN refreshTokens)]
                ELSE [a EXCEPT !.pc = "out_all", !.owned = TokensOf(a.uid)])

\* A logout that refuses a cookie whose row is not in the store.
LogoutToken_strict(s) ==
    /\ reqs[s].pc = "out_token"
    /\ Ready(s)
    /\ UNCHANGED <<users, tasks, refreshTokens, nextId, nextTask>>
    /\ Upd(s, IF getRefreshToken(reqs[s].cookie)
              THEN [reqs[s] EXCEPT !.pc = "out_all"]
              ELSE Done(reqs[s], AppError(401)))
    /\ UNCHANGED env

LogoutToken(s) ==
    /\ reqs[s].pc = "out_token"
    /\ Ready(s)
    /\ refreshTokens' = deleteRefreshToken(reqs[s].cookie)
    /\ UNCHANGED <<users, tasks, nextId, nextTask>>
    /\ Upd(s, [reqs[s] EXCEPT !.pc = "out_all"])
    /\ UNCHANGED env

\* A logout that deletes the row of the cookie only.
LogoutAll_cookieOnly(s) ==
    /\ reqs[s].pc = "out_all"
    /\ Ready(s)
    /\ UNCHANGED <<users, tasks, refreshTokens, nextId, nextTask>>
    /\ Upd(s, Done(reqs[s], 200))
    /\ UNCHANGED env

LogoutAll(s) ==
    /\ reqs[s].pc = "out_all"
    /\ Ready(s)
    /\ refreshTokens' = deleteRefreshTokensByUser(reqs[s].uid)
    /\ UNCHANGED <<users, tasks, nextId, nextTask>>
    /\ Upd(s, Done(reqs[s], 200))
    /\ UNCHANGED env

\* ---------------------------------------------------------- GET /api/auth/me
AuthMe(s) ==
    /\ AtAuth(s, "me")
    /\ LET a == Authed(reqs[s]) IN
         Upd(s, IF a.pc = "done" THEN a
                ELSE [Sent(a, 200, {UserPublic(users[a.uid])}) EXCEPT !.ruid = a.uid])

\* ------------------------------------- GET /api/users and GET /api/users/:id
AuthListUsers(s) ==
    /\ AtAuth(s, "listUsers")
    /\ LET a == Authed(reqs[s]) IN
         Upd(s, IF a.pc = "done" THEN a ELSE [a EXCEPT !.pc = "list_users"])

ListUsers(s) ==
    /\ reqs[s].pc = "list_users"
    /\ Ready(s)
    /\ UNCHANGED <<users, tasks, refreshTokens, nextId, nextTask>>
    /\ Upd(s, Sent(reqs[s], 200, {toPublicUser(users[i]) : i \in DOMAIN users}))
    /\ UNCHANGED env

AuthGetUserById(s) ==
    /\ AtAuth(s, "getUserById")
    /\ LET a == Authed(reqs[s]) IN
         Upd(s, IF a.pc = "done" THEN a ELSE [a EXCEPT !.pc = "gu_get"])

GetUserById(s) ==
    /\ reqs[s].pc = "gu_get"
    /\ Ready(s)
    /\ UNCHANGED <<users, tasks, refreshTokens, nextId, nextTask>>
    /\ Upd(s, IF getUser(reqs[s].target) = 0 THEN Done(reqs[s], AppError(404))
              ELSE [Sent(reqs[s], 200, {toPublicUser(users[reqs[s].target])})
                      EXCEPT !.ruid = reqs[s].target])
    /\ UNCHANGED env

\* ---------------------------------------------------------- POST /api/users
AuthCreateUser(s) ==
    /\ AtAuth(s, "createUser")
    /\ LET a == Authed(reqs[s]) IN
         IF a.pc = "done" THEN Upd(s, a)
         ELSE \E valid \in BOOLEAN, email \in Emails, username \in Usernames,
                 role \in UserRole :
                Upd(s, IF ~valid THEN Done(a, ZodError)
                       ELSE [a EXCEPT !.pc = "cu_email", !.email = email,
                                      !.username = username,
                                      !.password = GoodPassword, !.role = role])

CreateUserEmail(s) ==
    /\ reqs[s].pc = "cu_email"
    /\ Ready(s)
    /\ UNCHANGED <<users, tasks, refreshTokens, nextId, nextTask>>
    /\ Upd(s, IF getUserByEmail(reqs[s].email) # 0
              THEN Done(reqs[s], AppError(400))
              ELSE [reqs[s] EXCEPT !.pc = "cu_uname"])
    /\ UNCHANGED env

CreateUserUsername(s) ==
    /\ reqs[s].pc = "cu_uname"
    /\ Ready(s)
    /\ UNCHANGED <<users, tasks, refreshTokens, nextId, nextTask>>
    /\ Upd(s, IF getUserByUsername(reqs[s].username) # 0
              THEN Done(reqs[s], AppError(400))
              ELSE [reqs[s] EXCEPT !.pc = "cu_create"])
    /\ UNCHANGED env

CreateUserCreate(s) ==
    /\ reqs[s].pc = "cu_create"
    /\ Ready(s)
    /\ users' = createUser([email |-> reqs[s].email, username |-> reqs[s].username,
                            password |-> bcryptHash(reqs[s].password),
                            role |-> reqs[s].role])
    /\ nextId' = nextId + 1
    /\ UNCHANGED <<tasks, refreshTokens, nextTask>>
    /\ Upd(s, [Sent(reqs[s], 201, {toPublicUser(users'[nextId])})
                 EXCEPT !.ruid = nextId])
    /\ UNCHANGED env

\* ------------------------- PATCH /api/users/profile and PATCH /api/users/:id
\* The object handed to storage.updateUser: the fields that are present.
UpdateData(email, username, role, password) ==
    [f \in {x \in {"email", "username", "role", "password"} :
              \/ x = "email" /\ email # Absent
              \/ x = "username" /\ username # Absent
              \/ x = "role" /\ role # Absent
              \/ x = "password" /\ password # Absent} |->
       CASE f = "email" -> email
         [] f = "username" -> username
         [] f = "role" -> role
         [] f = "password" -> bcryptHash(password)]

\* The checks between storage.getUser and storage.updateUser, on the user as
\* it was read: the next store call, or "reject" with the status in .status.
AfterUsername(r, last) ==
    IF r.kind = "updateProfile" /\ r.newPassword # Absent
    THEN IF r.password = Absent THEN Done(r, AppError(400))
         ELSE IF ~bcryptCompare(r.password, r.fpassword) THEN Done(r, AppError(400))
         ELSE [r EXCEPT !.pc = last]
    ELSE [r EXCEPT !.pc = last]

AfterEmail(r, uname, last) ==
    IF r.username # Absent /\ r.username # r.fusername
    THEN [r EXCEPT !.pc = uname]
    ELSE AfterUsername(r, last)

AfterGet(r, email, uname, last) ==
    IF r.email # Absent /\ r.email # r.femail
    THEN [r EXCEPT !.pc = email]
    ELSE AfterEmail(r, uname, last)

Existing(r, id) == Holding(r, id, users[id])

AuthUpdateProfile(s) ==
    /\ AtAuth(s, "updateProfile")
    /\ LET a == Authed(reqs[s]) IN
         IF a.pc = "done" THEN Upd(s, a)
         ELSE \E valid \in BOOLEAN, email \in Emails \cup {Absent},
                 username \in Usernames \cup {Absent},
                 currentPassword \in {Absent, GoodPassword},
                 newPassword \in {Absent, AdminPassword},
                 role \in {Absent, ADMIN} :
                Upd(s, IF ~valid \/ (newPassword # Absent /\ currentPassword = Absent)
                       THEN Done(a, ZodError)
                       ELSE [a EXCEPT !.pc = "pf_get", !.email = email,
                                      !.username = username,
                                      !.password = currentPassword,
                                      !.newPassword = newPassword,
                                      !.role = role])

ProfileGet(s) ==
    /\ reqs[s].pc = "pf_get"
    /\ Ready(s)
    /\ UNCHANGED <<users, tasks, refreshTokens, nextId, nextTask>>
    /\ Upd(s, IF getUser(reqs[s].uid) = 0 THEN Done(reqs[s], AppError(404))
              ELSE AfterGet(Existing(reqs[s], reqs[s].uid),
                            "pf_email", "pf_uname", "pf_update"))
    /\ UNCHANGED env

ProfileEmail(s) ==
    /\ reqs[s].pc = "pf_email"
    /\ Ready(s)
    /\ UNCHANGED <<users, tasks, refreshTokens, nextId, nextTask>>
    /\ Upd(s, IF getUserByEmail(reqs[s].email) # 0 THEN Done(reqs[s], AppError(400))
              ELSE AfterEmail(reqs[s], "pf_uname", "pf_update"))
    /\ UNCHANGED env

ProfileUsername(s) ==
    /\ reqs[s].pc = "pf_uname"
    /\ Ready(s)
    /\ UNCHANGED <<users, tasks, refreshTokens, nextId, nextTask>>
    /\ Upd(s, IF getUserByUsername(reqs[s].username) # 0
              THEN Done(reqs[s], AppError(400))
              ELSE AfterUsername(reqs[s], "pf_update"))
    /\ UNCHANGED env

\* A profile update that hands the role of the body to storage.updateUser.
ProfileUpdate_bodyRole(s) ==
    /\ reqs[s].pc = "pf_update"
    /\ Ready(s)
    /\ users' = IF getUser(reqs[s].uid) = 0 THEN users
                ELSE updateUser(reqs[s].uid,
                                UpdateData(reqs[s].email, reqs[s].username,
                                           reqs[s].role, reqs[s].newPassword))
    /\ UNCHANGED <<tasks, refreshTokens, nextId, nextTask>>
    /\ Upd(s, IF getUser(reqs[s].uid) = 0 THEN Done(reqs[s], AppError(404))
              ELSE [Sent(reqs[s], 200, {toPublicUser(users'[reqs[s].uid])})
                      EXCEPT !.ruid = reqs[s].uid, !.role = reqs[s].role])
    /\ UNCHANGED env

\* storage.updateUser with the updateData the handler has built: email,
\* username and password, never a role, whatever the body held.
ProfileUpdate(s) ==
    /\ reqs[s].pc = "pf_update"
    /\ Ready(s)
    /\ users' = IF getUser(reqs[s].uid) = 0 THEN users
                ELSE updateUser(reqs[s].uid,
                                UpdateData(reqs[s].email, reqs[s].username, Absent,
                                           reqs[s].newPassword))
    /\ UNCHANGED <<tasks, refreshTokens, nextId, nextTask>>
    /\ Upd(s, IF getUser(reqs[s].uid) = 0 THEN Done(reqs[s], AppError(404))
              ELSE [Sent(reqs[s], 200, {toPublicUser(users'[reqs[s].uid])})
                      EXCEPT !.ruid = reqs[s].uid, !.role = reqs[s].role])
    /\ UNCHANGED env

AuthUpdateUser(s) ==
    /\ AtAuth(s, "updateUser")
    /\ LET a == Authed(reqs[s]) IN
         IF a.pc = "done" THEN Upd(s, a)
         ELSE \E valid \in BOOLEAN, email \in Emails \cup {Absent},
                 username \in Usernames \cup {Absent},
                 role \in UserRole \cup {Absent} :
                Upd(s, IF ~valid THEN Done(a, ZodError)
                       ELSE [a EXCEPT !.pc = "uu_get", !.email = email,
                                      !.username = username, !.role = role])

UpdateUserGet(s) ==
    /\ reqs[s].pc = "uu_get"
    /\ Ready(s)
    /\ UNCHANGED <<users, tasks, refreshTokens, nextId, nextTask>>
    /\ Upd(s, IF getUser(reqs[s].target) = 0 THEN Done(reqs[s], AppError(404))
              ELSE AfterGet(Existing(reqs[s], reqs[s].target),
                            "uu_email", "uu_uname", "uu_update"))
    /\ UNCHANGED env

UpdateUserEmail(s) ==
    /\ reqs[s].pc = "uu_email"
    /\ Ready(s)
    /\ UNCHANGED <<users, tasks, refreshTokens, nextId, nextTask>>
    /\ Upd(s, IF getUserByEmail(reqs[s].email) # 0 THEN Done(reqs[s], AppError(400))
              ELSE AfterEmail(reqs[s], "uu_uname", "uu_update"))
    /\ UNCHANGED env

UpdateUserUsername(s) ==
    /\ reqs[s].pc = "uu_uname"
    /\ Ready(s)
    /\ UNCHANGED <<users, tasks, refreshTokens, nextId, nextTask>>
    /\ Upd(s, IF getUserByUsername(reqs[s].username) # 0
              THEN Done(reqs[s], AppError(400))
              ELSE AfterUsername(reqs[s], "uu_update"))
    /\ UNCHANGED env

UpdateUserUpdate(s) ==
    /\ reqs[s].pc = "uu_update"
    /\ Ready(s)
    /\ users' = IF getUser(reqs[s].target) = 0 THEN users
                ELSE updateUser(reqs[s].target,
                                UpdateData(reqs[s].email, reqs[s].username,
                                           reqs[s].role, Absent))
    /\ UNCHANGED <<tasks, refreshTokens, nextId, nextTask>>
    /\ Upd(s, IF getUser(reqs[s].target) = 0 THEN Done(reqs[s], AppError(404))
              ELSE [Sent(reqs[s], 200, {toPublicUser(users'[reqs[s].target])})
                      EXCEPT !.ruid = reqs[s].target])
    /\ UNCHANGED env

\* ---------------------------------------------------- DELETE /api/users/:id
AuthDeleteUser(s) ==
    /\ AtAuth(s, "deleteUser")
    /\ LET a == Authed(reqs[s]) IN
         Upd(s, IF a.pc = "done" THEN a
                ELSE IF a.uid = a.target THEN Done(a, AppError(400))
                ELSE [a EXCEPT !.pc = "del_user"])

\* The handler that answers without its calls of the store.
DeleteUserUser_noCalls(s) ==
    /\ reqs[s].pc = "del_user"
    /\ Ready(s)
    /\ UNCHANGED <<users, tasks, refreshTokens, nextId, nextTask>>
    /\ Upd(s, Done(reqs[s], 200))
    /\ gone' = gone \cup {reqs[s].target}
    /\ UNCHANGED <<initialized, seedBy, now, ticks, started, limit, budget, client, localStorage,
                   hits, resetTime>>

DeleteUserUser(s) ==
    /\ reqs[s].pc = "del_user"
    /\ Ready(s)
    /\ users' = deleteUser(reqs[s].target)
    /\ UNCHANGED <<tasks, refreshTokens, nextId, nextTask>>
    /\ Upd(s, IF getUser(reqs[s].target) = 0 THEN Done(reqs[s], AppError(404))
              ELSE [reqs[s] EXCEPT !.pc = "del_tokens"])
    /\ UNCHANGED env

DeleteUserTokens(s) ==
    /\ reqs[s].pc = "del_tokens"
    /\ Ready(s)
    /\ refreshTokens' = deleteRefreshTokensByUser(reqs[s].target)
    /\ UNCHANGED <<users, tasks, nextId, nextTask>>
    /\ Upd(s, Done(reqs[s], 200))
    /\ gone' = gone \cup {reqs[s].target}
    /\ UNCHANGED <<initialized, seedBy, now, ticks, started, limit, budget, client, localStorage,
                   hits, resetTime>>

\* ------------------------------------------------------------ /api/tasks
AuthListTasks(s) ==
    /\ AtAuth(s, "listTasks")
    /\ LET a == Authed(reqs[s]) IN
         Upd(s, IF a.pc = "done" THEN a ELSE [a EXCEPT !.pc = "lt_list"])

ListTasks(s) ==
    /\ reqs[s].pc = "lt_list"
    /\ Ready(s)
    /\ UNCHANGED <<users, tasks, refreshTokens, nextId, nextTask>>
    /\ Upd(s, Sent(reqs[s], 200,
                   UNION {Assignee(tasks[t].assignedTo) : t \in DOMAIN tasks}))
    /\ UNCHANGED env

AuthCreateTask(s) ==
    /\ AtAuth(s, "createTask")
    /\ LET a == Authed(reqs[s]) IN
         IF a.pc = "done" THEN Upd(s, a)
         ELSE \E valid \in BOOLEAN, assignedTo \in Ids :
                Upd(s, IF ~valid THEN Done(a, ZodError)
                       ELSE [a EXCEPT !.pc = "ct_user", !.assignedTo = assignedTo])

CreateTaskUser(s) ==
    /\ reqs[s].pc = "ct_user"
    /\ Ready(s)
    /\ UNCHANGED <<users, tasks, refreshTokens, nextId, nextTask>>
    /\ Upd(s, IF getUser(reqs[s].assignedTo) = 0 THEN Done(reqs[s], AppError(400))
              ELSE [reqs[s] EXCEPT !.pc = "ct_create"])
    /\ UNCHANGED env

\* storage.createTask; the getTaskWithAssignee that follows only reads.
CreateTaskCreate(s) ==
    /\ reqs[s].pc = "ct_create"
    /\ Ready(s)
    /\ tasks' = createTask([assignedTo |-> reqs[s].assignedTo])
    /\ nextTask' = nextTask + 1
    /\ UNCHANGED <<users, refreshTokens, nextId>>
    /\ Upd(s, Sent(reqs[s], 201, Assignee(reqs[s].assignedTo)))
    /\ UNCHANGED env

AuthUpdateTask(s) ==
    /\ AtAuth(s, "updateTask")
    /\ LET a == Authed(reqs[s]) IN
         IF a.pc = "done" THEN Upd(s, a)
         ELSE \E valid \in BOOLEAN, assignedTo \in Ids \cup {0} :
                Upd(s, IF ~valid THEN Done(a, ZodError)
                       ELSE [a EXCEPT !.pc = "ut_get", !.assignedTo = assignedTo])

UpdateTaskGet(s) ==
    /\ reqs[s].pc = "ut_get"
    /\ Ready(s)
    /\ UNCHANGED <<users, tasks, refreshTokens, nextId, nextTask>>
    /\ Upd(s, IF getTask(reqs[s].target) = 0 THEN Done(reqs[s], AppError(404))
              ELSE IF reqs[s].assignedTo # 0 THEN [reqs[s] EXCEPT !.pc = "ut_user"]
              ELSE [reqs[s] EXCEPT !.pc = "ut_update"])
    /\ UNCHANGED env

UpdateTaskUser(s) ==
    /\ reqs[s].pc = "ut_user"
    /\ Ready(s)
    /\ UNCHANGED <<users, tasks, refreshTokens, nextId, nextTask>>
    /\ Upd(s, IF getUser(reqs[s].assignedTo) = 0 THEN Done(reqs[s], AppError(400))
              ELSE [reqs[s] EXCEPT !.pc = "ut_update"])
    /\ UNCHANGED env

\* storage.updateTask; the getTaskWithAssignee that follows only reads.
UpdateTaskUpdate(s) ==
    /\ reqs[s].pc = "ut_update"
    /\ Ready(s)
    /\ tasks' = IF getTask(reqs[s].target) = 0 THEN tasks
                ELSE updateTask(reqs[s].target,
                                IF reqs[s].assignedTo = 0 THEN <<>>
                                ELSE [assignedTo |-> reqs[s].assignedTo])
    /\ UNCHANGED <<users, refreshTokens, nextId, nextTask>>
    /\ Upd(s, IF getTask(reqs[s].target) = 0 THEN Done(reqs[s], AppError(404))
              ELSE Sent(reqs[s], 200, Assignee(tasks'[reqs[s].target].assignedTo)))
    /\ UNCHANGED env

AuthDeleteTask(s) ==
    /\ AtAuth(s, "deleteTask")
    /\ LET a == Authed(reqs[s]) IN
         Upd(s, IF a.pc = "done" THEN a ELSE [a EXCEPT !.pc = "dt_delete"])

DeleteTask(s) ==
    /\ reqs[s].pc = "dt_delete"
    /\ Ready(s)
    /\ tasks' = deleteTask(reqs[s].target)
    /\ UNCHANGED <<users, refreshTokens, nextId, nextTask>>
    /\ Upd(s, IF getTask(reqs[s].target) = 0 THEN Done(reqs[s], AppError(404))
              ELSE Done(reqs[s], 200))
    /\ UNCHANGED env

\* ------------------------------------------------- client/src/lib/api.ts
\* What localStorage may hold when a call begins, and what /auth/refresh
\* may send: nothing, or an access token of an earlier response.
AccessTokens == {generateAccessToken(u, Epoch) : u \in 1..2}
StoredTokens == {NoToken} \cup AccessTokens

\* How an awaited fetch settles: with a response of some status, or by
\* throwing (the network failed).
Statuses == {200, 201, 400, 401, 403, 404, 500}
Responses ==
    {[threw |-> FALSE, status |-> st] : st \in Statuses}
      \cup {[threw |-> TRUE, status |-> 0]}
RefreshResponses ==
    {[threw |-> FALSE, status |-> 200, accessToken |-> t] : t \in AccessTokens}
      \cup {[threw |-> FALSE, status |-> st, accessToken |-> NoToken] :
              st \in {401, 429, 500}}
      \cup {[threw |-> TRUE, status |-> 0, accessToken |-> NoToken]}

\* fetches, refreshes: the fetch(url) and the /auth/refresh requests the
\* call has sent; first, second: the status of their responses; thrown,
\* status: how the call returned.  calls: the calls begun so far.
IdleClient ==
    [pc |-> "idle", calls |-> 0, headers |-> NoToken, retryHeaders |-> NoToken,
     fetches |-> 0, refreshes |-> 0, first |-> 0, second |-> 0,
     newToken |-> NoToken, thrown |-> "none", status |-> 0]

Returned == {"resolved", "rejected"}

\* Response.ok
ok(status) == status \in 200..299

\* handleResponse: a response that is not ok is thrown as an ApiError with
\* its status.
handleResponse(c, status) ==
    IF ~ok(status)
    THEN [c EXCEPT !.pc = "rejected", !.thrown = "ApiError", !.status = status]
    ELSE [c EXCEPT !.pc = "resolved", !.status = status]

\* A fetch that throws rejects the call, which has no try around it.
Threw(c) == [c EXCEPT !.pc = "rejected", !.thrown = "TypeError"]

getAuthHeaders == localStorage

ServerVars ==
    <<initialized, seedBy, users, tasks, refreshTokens, nextId, nextTask,
      now, ticks, reqs, started, limit, budget, gone, hits, resetTime>>

\* fetchWithAuth is called: the headers are built and the request is sent.
fetchWithAuth ==
    /\ client.pc \in Returned \cup {"idle"}
    /\ client.calls < MaxCalls
    /\ client' = [IdleClient EXCEPT !.pc = "first",
                                    !.calls = client.calls + 1,
                                    !.headers = getAuthHeaders,
                                    !.fetches = 1]
    /\ UNCHANGED localStorage
    /\ UNCHANGED ServerVars

\* The first fetch settles: on 401 refreshAccessToken is called and sends
\* its request, any other response goes to handleResponse.
FirstFetch ==
    /\ client.pc = "first"
    /\ \E response \in Responses :
         client' = IF response.threw THEN Threw(client)
                   ELSE IF response.status = 401
                   THEN [client EXCEPT !.pc = "refresh", !.first = 401,
                                       !.refreshes = client.refreshes + 1]
                   ELSE handleResponse([client EXCEPT !.first = response.status],
                                       response.status)
    /\ UNCHANGED localStorage
    /\ UNCHANGED ServerVars

\* refreshAccessToken: null unless the response is ok, else its accessToken.
refreshAccessToken(response) ==
    IF response.threw \/ ~ok(response.status) THEN NoToken
    ELSE response.accessToken

\* A retry that is refreshed and sent again when its response is 401.
RetryFetch_again ==
    /\ client.pc = "retry"
    /\ \E response \in Responses :
         client' = IF response.threw THEN Threw(client)
                   ELSE IF response.status = 401
                   THEN [client EXCEPT !.pc = "refresh", !.second = 401,
                                       !.refreshes = client.refreshes + 1]
                   ELSE handleResponse([client EXCEPT !.second = response.status],
                                       response.status)
    /\ UNCHANGED localStorage
    /\ UNCHANGED ServerVars

\* The fetch of /auth/refresh settles: with a new token it is stored and the
\* request is sent again under it; without one the first response goes to
\* handleResponse.
RefreshFetch ==
    /\ client.pc = "refresh"
    /\ \E response \in RefreshResponses :
         LET newToken == refreshAccessToken(response) IN
           /\ localStorage' = IF newToken # NoToken THEN newToken ELSE localStorage
           /\ client' = IF newToken # NoToken
                        THEN [client EXCEPT !.pc = "retry", !.newToken = newToken,
                                            !.retryHeaders = newToken,
                                            !.fetches = client.fetches + 1]
                        ELSE handleResponse(client, client.first)
    /\ UNCHANGED ServerVars

\* The second fetch settles: its response goes to handleResponse.
RetryFetch ==
    /\ client.pc = "retry"
    /\ \E response \in Responses :
         client' = IF response.threw THEN Threw(client)
                   ELSE handleResponse([client EXCEPT !.second = response.status],
                                       response.status)
    /\ UNCHANGED localStorage
    /\ UNCHANGED ServerVars

\* ------------------------------------------------------------ specification
InitServer(lim, bud) ==
    /\ initialized = FALSE
    /\ seedBy = 0
    /\ users = <<>>
    /\ tasks = <<>>
    /\ refreshTokens = <<>>
    /\ nextId = 1
    /\ nextTask = 1
    /\ now = Epoch
    /\ ticks = 0
    /\ reqs = [s \in Slots |-> IdleReq]
    /\ started = 0
    /\ limit = lim
    /\ budget = bud
    /\ gone = {}
    /\ hits = 0
    /\ resetTime = 0

\* The server after construction, and the browser before any call: no
\* call of the client has begun and localStorage holds no token.
InitWith(lim, bud) ==
    /\ InitServer(lim, bud)
    /\ client = IdleClient
    /\ localStorage = NoToken

RegisterSteps(s) ==
    \/ StartRegister(s) \/ RegisterEmail(s) \/ RegisterUsername(s)
    \/ RegisterCreate(s) \/ RegisterToken(s)

LoginSteps(s) ==
    \/ StartLogin(s) \/ LoginEmail(s) \/ LoginDelete(s) \/ LoginToken(s)

RefreshSteps(s) ==
    \/ StartRefresh(s) \/ RefreshGet(s) \/ RefreshDelete(s) \/ RefreshUser(s)

LogoutSteps(s) ==
    \/ AuthLogout(s) \/ LogoutToken(s) \/ LogoutAll(s)

CreateUserSteps(s) ==
    \/ AuthCreateUser(s) \/ CreateUserEmail(s) \/ CreateUserUsername(s)
    \/ CreateUserCreate(s)

ProfileSteps(s) ==
    \/ AuthUpdateProfile(s) \/ ProfileGet(s) \/ ProfileEmail(s)
    \/ ProfileUsername(s) \/ ProfileUpdate(s)

UpdateUserSteps(s) ==
    \/ AuthUpdateUser(s) \/ UpdateUserGet(s) \/ UpdateUserEmail(s)
    \/ UpdateUserUsername(s) \/ UpdateUserUpdate(s)

DeleteUserSteps(s) ==
    \/ AuthDeleteUser(s) \/ DeleteUserUser(s) \/ DeleteUserTokens(s)

ReadSteps(s) ==
    \/ AuthMe(s) \/ AuthListUsers(s) \/ ListUsers(s)
    \/ AuthGetUserById(s) \/ GetUserById(s)

TaskSteps(s) ==
    \/ AuthListTasks(s) \/ ListTasks(s)
    \/ AuthCreateTask(s) \/ CreateTaskUser(s) \/ CreateTaskCreate(s)
    \/ AuthUpdateTask(s) \/ UpdateTaskGet(s) \/ UpdateTaskUser(s)
    \/ UpdateTaskUpdate(s)
    \/ AuthDeleteTask(s) \/ DeleteTask(s)

\* The authentication flows, one request at a time: register, login, refresh,
\* logout, and the admin's creating and deleting of users.
Init == InitWith(1, MaxRequests)

Next ==
    \/ Tick(Jumps)
    \/ SeedAdmin
    \/ \E s \in Slots :
         \/ EnsureInit(s)
         \/ RegisterSteps(s) \/ LoginSteps(s) \/ RefreshSteps(s)
         \/ StartAuth(s, {"logout", "createUser", "deleteUser"})
         \/ LogoutSteps(s) \/ CreateUserSteps(s) \/ DeleteUserSteps(s)

Spec == Init /\ [][Next]_vars

\* The routes behind authenticate, one request at a time.
NextRoutes ==
    \/ SeedAdmin
    \/ \E s \in Slots :
         \/ EnsureInit(s)
         \/ StartAuth(s, AuthKinds \cup TaskKinds)
         \/ LogoutSteps(s) \/ ReadSteps(s) \/ CreateUserSteps(s)
         \/ ProfileSteps(s) \/ UpdateUserSteps(s) \/ DeleteUserSteps(s)
         \/ TaskSteps(s)

InitRoutes == InitWith(1, MaxRouteRequests)

SpecRoutes == InitRoutes /\ [][NextRoutes]_vars

\* The endpoints of /api/auth under the limiter, one request at a time, with
\* enough requests for the limit to be passed.
InitLimit == InitWith(1, MaxLimitRequests)

NextLimit ==
    \/ Tick({RefreshTTL + 1})
    \/ SeedAdmin
    \/ \E s \in Slots :
         \/ EnsureInit(s)
         \/ LoginSteps(s) \/ RefreshSteps(s)
         \/ StartAuth(s, {"logout"})
         \/ LogoutSteps(s)

SpecLimit == InitLimit /\ [][NextLimit]_vars

\* Every route that answers with user objects, one request at a time.
InitBodies == InitWith(1, MaxBodyRequests)

NextBodies ==
    \/ SeedAdmin
    \/ \E s \in Slots :
         \/ EnsureInit(s)
         \/ RegisterSteps(s) \/ LoginSteps(s)
         \/ StartAuth(s, {"me", "listUsers", "getUserById", "createUser",
                          "updateProfile", "updateUser", "listTasks",
                          "createTask", "updateTask"})
         \/ AuthMe(s) \/ AuthListUsers(s) \/ ListUsers(s)
         \/ AuthGetUserById(s) \/ GetUserById(s)
         \/ CreateUserSteps(s) \/ ProfileSteps(s) \/ UpdateUserSteps(s)
         \/ AuthListTasks(s) \/ ListTasks(s)
         \/ AuthCreateTask(s) \/ CreateTaskUser(s) \/ CreateTaskCreate(s)
         \/ AuthUpdateTask(s) \/ UpdateTaskGet(s) \/ UpdateTaskUser(s)
         \/ UpdateTaskUpdate(s)

SpecBodies == InitBodies /\ [][NextBodies]_vars

\* Requests in flight together, interleaved at their store calls.
InitConc == InitWith(MaxInflight, MaxConcRequests)

NextConc ==
    \/ Tick({1})
    \/ SeedAdmin
    \/ \E s \in Slots :
         \/ EnsureInit(s)
         \/ RegisterSteps(s) \/ LoginSteps(s)
         \/ StartAuth(s, {"deleteUser"})
         \/ DeleteUserSteps(s)

SpecConc == InitConc /\ [][NextConc]_vars

\* The routes that create and delete users, with requests in flight
\* together: a second ADMIN comes from POST /api/users.
InitAdmins == InitWith(MaxInflight, MaxAdminRequests)

NextAdmins ==
    \/ SeedAdmin
    \/ \E s \in Slots :
         \/ EnsureInit(s)
         \/ StartAuth(s, {"createUser", "deleteUser"})
         \/ CreateUserSteps(s)
         \/ DeleteUserSteps(s)

SpecAdmins == InitAdmins /\ [][NextAdmins]_vars

\* The browser client: calls of fetchWithAuth, one at a time, against
\* whatever the server may answer.  Every awaited fetch settles.
InitClient ==
    /\ InitServer(1, 0)
    /\ client = IdleClient
    /\ localStorage \in StoredTokens

NextClient == fetchWithAuth \/ FirstFetch \/ RefreshFetch \/ RetryFetch

SpecClient ==
    InitClient /\ [][NextClient]_vars
      /\ WF_vars(FirstFetch) /\ WF_vars(RefreshFetch) /\ WF_vars(RetryFetch)

\* ------------------------------------------------------------------ claims
\* The ids randomUUID has given whose user is no longer in the store.
Deleted == {i \in 1..(nextId - 1) : i \notin DOMAIN users}

\* The requests that have been answered.
Answered == {s \in Slots : reqs[s].pc = "done"}

\* C1: with requests served one at a time, in every state reached by
\* register, login, refresh, logout, admin create-user and admin delete-user
\* requests, each user owns at most one row of the refresh-token store.
C1_AtMostOneRowPerUser ==
    \A u \in Ids : Cardinality(TokensOf(u)) <= 1

\* A registered user has logged in after the clock advanced, and owns the
\* one row of that login.
C1_Witness ==
    \E s \in Answered :
      /\ reqs[s].kind = "login"
      /\ reqs[s].status = 200
      /\ reqs[s].setCookie.iat > Epoch
      /\ users[reqs[s].ruid].role = MEMBER
      /\ TokensOf(reqs[s].ruid) = {reqs[s].setCookie}

C3_AuthenticateOutcomes ==
    /\ \A h \in Headers(nextId - 1, now) :
         LET a == authenticate(h, now) IN
           \/ a.status = 401 /\ a.next = 0 /\ a.uid = 0
           \/ /\ a.status = 0 /\ a.next = 1
              /\ h.scheme = "Bearer"
              /\ verifyToken(h.token, now) # 0
              /\ a.uid = verifyToken(h.token, now)
              /\ a.uid \in DOMAIN users
    /\ \A s \in Slots :
         reqs[s].kind \in AuthKinds \cup TaskKinds /\ reqs[s].pc # "auth_user"
           => \/ /\ s \in Answered /\ reqs[s].status = 401
                 /\ reqs[s].nexts = 0 /\ reqs[s].uid = 0 /\ ~reqs[s].handler
              \/ reqs[s].nexts = 1 /\ reqs[s].uid = reqs[s].authUid /\ reqs[s].uid # 0

\* A request whose token verifies has been answered 401 for its user is not
\* in the store, while another header would pass.
C3_Witness ==
    /\ \E s \in Answered :
         /\ reqs[s].kind \in AuthKinds \cup TaskKinds
         /\ reqs[s].authUid # 0
         /\ reqs[s].status = 401
         /\ reqs[s].nexts = 0
    /\ \E h \in Headers(nextId - 1, now) : authenticate(h, now).next = 1

\* C4: no two stored users have emails equal ignoring case, nor usernames
\* equal ignoring case, however the requests that write users interleave.
C4_UniqueIgnoringCase ==
    \A i, j \in DOMAIN users :
      i # j => /\ toLowerCase(users[i].email) # toLowerCase(users[j].email)
               /\ toLowerCase(users[i].username) # toLowerCase(users[j].username)

\* C5: once DELETE /api/users/:id for a user has been answered 200 and no
\* request is in flight, no row of the refresh-token store is owned by
\* that user, also when a login of that user, answered 200, ran together
\* with the delete.
C5_NoRowOfDeletedUser ==
    \A s \in Answered :
      (/\ reqs[s].kind = "login"
       /\ reqs[s].status = 200
       /\ reqs[s].ruid \in gone
       /\ Busy = {})
        => TokensOf(reqs[s].ruid) = {}

\* C6: with requests served one at a time, a refresh that presents a token
\* naming a user whose delete has been answered 200 is answered 401 and
\* issues no access token.
C6_RefreshAfterDelete ==
    [][\A s \in Slots :
         (/\ reqs'[s] # reqs[s]
          /\ reqs'[s].kind = "refresh"
          /\ reqs'[s].pc = "done"
          /\ reqs'[s].cookie.userId \in gone)
           => reqs'[s].status = 401 /\ reqs'[s].access = NoToken]_vars

\* A refresh with an unexpired refresh token of a deleted user was answered 401.
C6_Witness ==
    \E s \in Answered :
      /\ reqs[s].kind = "refresh"
      /\ reqs[s].cookie.userId \in gone
      /\ reqs[s].cookie.type = "refresh"
      /\ verifyToken(reqs[s].cookie, now) # 0
      /\ reqs[s].status = 401
      /\ reqs[s].access = NoToken

\* C7: a request whose token verifies and names a user deleted from the
\* store is answered 401 by authenticate, which does not call next, and the
\* handler is not run.
C7_DeletedUserRejected ==
    [][\A s \in Slots :
         (/\ reqs[s].pc = "auth_user"
          /\ reqs'[s].pc # "auth_user"
          /\ reqs[s].authUid \in Deleted)
           => /\ reqs'[s].pc = "done"
              /\ reqs'[s].status = 401
              /\ reqs'[s].nexts = 0
              /\ ~reqs'[s].handler]_vars

\* A request with an unexpired access token of a deleted user was answered 401.
C7_Witness ==
    \E s \in Answered :
      /\ reqs[s].authUid \in Deleted
      /\ reqs[s].authType = "access"
      /\ reqs[s].status = 401
      /\ reqs[s].nexts = 0
      /\ ~reqs[s].handler

\* C8: the role guard responds 401 with no identity attached, 403 when the
\* role of the identity is not allowed, and calls next otherwise; on an
\* ADMIN-only route a MEMBER gets 403 and an ADMIN reaches the handler.
C8_RoleGuard ==
    /\ \A uid \in {0} \cup Ids, urole \in UserRole :
         /\ \A roles \in SUBSET UserRole :
              requireRole(roles, uid, urole) =
                (IF uid = 0 THEN 401 ELSE IF urole \in roles THEN 0 ELSE 403)
         /\ requireAdmin(uid, urole) = requireRole({ADMIN}, uid, urole)
    /\ \A s \in Slots :
         (/\ reqs[s].kind \in AdminKinds \cup TaskKinds
          /\ reqs[s].nexts = 1
          /\ reqs[s].pc # "auth_user")
           => /\ reqs[s].urole = MEMBER
                   => s \in Answered /\ reqs[s].status = 403 /\ ~reqs[s].handler
              /\ reqs[s].urole = ADMIN => reqs[s].handler

\* A MEMBER has been answered 403 on an ADMIN-only route.
C8_Witness ==
    \E s \in Answered :
      /\ reqs[s].kind \in AdminKinds \cup TaskKinds
      /\ reqs[s].nexts = 1
      /\ reqs[s].urole = MEMBER
      /\ reqs[s].status = 403

\* The requests on ADMIN-only routes that authenticate or requireAdmin rejected.
Rejected ==
    {s \in Slots : /\ reqs[s].kind \in AdminKinds \cup TaskKinds
                   /\ reqs[s].pc \notin {"idle", "auth_user"}
                   /\ (reqs[s].nexts = 0 \/ reqs[s].urole # ADMIN)}

\* C9 as stated: a request on an ADMIN-only route that authenticate or
\* requireAdmin rejects does not run the handler and changes no store.
C9_RejectedChangesNoStore ==
    \A s \in Rejected :
      /\ s \in Answered
      /\ reqs[s].status \in {401, 403}
      /\ ~reqs[s].handler
      /\ ~reqs[s].wrote
      /\ ~reqs[s].seeded

\* C9 amended: such a request does not run the handler, and changes no
\* store but for the seeding of the default admin, which the first store
\* call of the process runs.
C9_RejectedRunsNoHandler ==
    \A s \in Rejected :
      /\ s \in Answered
      /\ reqs[s].status \in {401, 403}
      /\ ~reqs[s].handler
      /\ ~reqs[s].wrote
      /\ reqs[s].seeded => reqs[s].nexts = 0 /\ users # <<>>

\* A request that authenticate rejected has been answered, and its store
\* call seeded the admin.
C9_Witness ==
    \E s \in Rejected :
      /\ s \in Answered
      /\ reqs[s].status = 401
      /\ reqs[s].seeded
      /\ ~reqs[s].wrote
      /\ DOMAIN users = {1}

\* C10: with requests served one at a time, once a login has been answered
\* 200 its user owns exactly one row, the token of that row is the one in
\* the refreshToken cookie, and no token the user owned before the login
\* can be looked up.
C10_LoginRevokesOlderTokens ==
    \A s \in Answered :
      reqs[s].kind = "login" /\ reqs[s].status = 200
        => /\ TokensOf(reqs[s].ruid) = {reqs[s].setCookie}
           /\ \A k \in reqs[s].owned : ~getRefreshToken(k)

C12_LogoutIdempotent ==
    \A s \in Answered :
      reqs[s].kind = "logout" /\ reqs[s].nexts = 1
        => /\ reqs[s].status = 200
           /\ reqs[s].handler
           /\ deleteRefreshToken(reqs[s].cookie) = refreshTokens
           /\ deleteRefreshTokensByUser(reqs[s].uid) = refreshTokens

\* A logout whose cookie names a token of its user, no longer in the store
\* when it ran, was answered 200 and changed nothing.
C12_Witness ==
    \E s \in Answered :
      /\ reqs[s].kind = "logout"
      /\ reqs[s].status = 200
      /\ reqs[s].cookie.type = "refresh"
      /\ reqs[s].cookie.userId = reqs[s].uid
      /\ reqs[s].owned = {}
      /\ ~reqs[s].wrote

\* C13: a refresh is answered 200 with a new access token only if its
\* cookie is present, a row for that token is in the store, the expiry of
\* the row has not passed, the token verifies and its user is in the store;
\* every other refresh is answered 401 and issues no access token.
C13_RefreshOnlyIfValid ==
    [][\A s \in Slots :
         /\ (reqs[s].pc = "ref_get" /\ reqs'[s].pc = "ref_user")
              => /\ reqs[s].cookie # NoToken
                 /\ getRefreshToken(reqs[s].cookie)
                 /\ ~(now > refreshTokens[reqs[s].cookie].expiresAt)
                 /\ reqs[s].cookie.sig = "ok"
                 /\ now < reqs[s].cookie.iat + RefreshTTL
                 /\ reqs'[s].fid = reqs[s].cookie.userId
         /\ (reqs'[s] # reqs[s] /\ reqs'[s].kind = "refresh" /\ reqs'[s].pc = "done")
              => IF reqs'[s].status = 200
                 THEN /\ reqs[s].pc = "ref_user"
                      /\ getRefreshToken(reqs[s].cookie)
                      /\ reqs[s].cookie.userId \in DOMAIN users
                      /\ reqs'[s].access = generateAccessToken(reqs[s].cookie.userId, now)
                 ELSE /\ reqs'[s].status = 401
                      /\ reqs'[s].access = NoToken]_vars

\* A refresh was answered 200 with an access token of the owner of its row.
C13_Witness ==
    \E s \in Answered :
      /\ reqs[s].kind = "refresh"
      /\ reqs[s].status = 200
      /\ reqs[s].access.userId = reqs[s].cookie.userId
      /\ reqs[s].access.type = "access"
      /\ getRefreshToken(reqs[s].cookie)

\* C14: a refresh whose row exists but whose store expiry has passed, or
\* whose token does not verify, deletes that row and is answered 401; after
\* the request the token has no row.
C14_RefreshDeletesExpired ==
    [][\A s \in Slots :
         /\ (/\ reqs[s].pc = "ref_get" /\ reqs'[s].pc # "ref_get"
             /\ getRefreshToken(reqs[s].cookie)
             /\ \/ now > refreshTokens[reqs[s].cookie].expiresAt
                \/ verifyToken(reqs[s].cookie, now) = 0)
              => reqs'[s].pc = "ref_delete"
         /\ (reqs[s].pc = "ref_delete" /\ reqs'[s].pc # "ref_delete")
              => /\ reqs'[s].pc = "done"
                 /\ reqs'[s].status = 401
                 /\ reqs'[s].access = NoToken
                 /\ reqs[s].cookie \notin DOMAIN refreshTokens']_vars

\* A refresh with a token of this process whose life is over was answered 401
\* and its row is gone.
C14_Witness ==
    \E s \in Answered :
      /\ reqs[s].kind = "refresh"
      /\ reqs[s].status = 401
      /\ reqs[s].wrote
      /\ reqs[s].cookie.sig = "ok"
      /\ verifyToken(reqs[s].cookie, now) = 0
      /\ ~getRefreshToken(reqs[s].cookie)

\* C15: a refresh answered 200 changes neither the refresh-token store nor
\* the user store and sets no cookie: the row of its token is still there,
\* owned by the same user.
C15_RefreshDoesNotRotate ==
    \A s \in Answered :
      reqs[s].kind = "refresh" /\ reqs[s].status = 200
        => /\ ~reqs[s].wrote
           /\ ~reqs[s].seeded
           /\ reqs[s].setCookie = NoToken
           /\ getRefreshToken(reqs[s].cookie)
           /\ refreshTokens[reqs[s].cookie].userId = reqs[s].ruid
           /\ reqs[s].ruid \in DOMAIN users

\* A refresh was answered 200 after the clock advanced past the issuance of
\* its token, and the row is still in the store.
C15_Witness ==
    \E s \in Answered :
      /\ reqs[s].kind = "refresh"
      /\ reqs[s].status = 200
      /\ reqs[s].access.iat > reqs[s].cookie.iat
      /\ getRefreshToken(reqs[s].cookie)
      /\ reqs[s].setCookie = NoToken

\* C16: a login naming an email no user has and a login naming an existing
\* email with a wrong password get the same response, status 401 with the
\* message "Invalid email or password", and neither sets a cookie.
C16_LoginFailuresAlike ==
    /\ \A e1, e2 \in Emails, p1, p2 \in Passwords :
         (/\ getUserByEmail(e1) = 0
          /\ getUserByEmail(e2) # 0
          /\ ~bcryptCompare(p2, users[getUserByEmail(e2)].password))
           => /\ loginCheck(e1, p1) = loginCheck(e2, p2)
              /\ loginCheck(e1, p1).status = 401
              /\ loginCheck(e1, p1).message = "Invalid email or password"
    /\ \A s \in Answered :
         reqs[s].kind = "login" /\ reqs[s].handler /\ reqs[s].status # 200
           => /\ reqs[s].status = 401
              /\ reqs[s].message = "Invalid email or password"
              /\ reqs[s].setCookie = NoToken
              /\ reqs[s].access = NoToken

\* A login was answered 401 on a store where some email is unknown and some
\* known email has another password.
C16_Witness ==
    /\ \E s \in Answered :
         reqs[s].kind = "login" /\ reqs[s].handler /\ reqs[s].status = 401
    /\ \E e1, e2 \in Emails, p2 \in Passwords :
         /\ getUserByEmail(e1) = 0
         /\ getUserByEmail(e2) # 0
         /\ ~bcryptCompare(p2, users[getUserByEmail(e2)].password)

\* C17: within one window of 15 minutes the register, login, refresh and
\* logout endpoints accept at most 20 requests of the client: a request to
\* one of the four that is the 21st or a later one counted in the window is
\* answered 429 and its handler does not run.
C17_AuthEndpointsLimited ==
    \A s \in Slots :
      reqs[s].kind \in {"register", "login", "refresh", "logout"}
        /\ reqs[s].nth > AuthMax
        => /\ ~reqs[s].handler
           /\ reqs[s].pc = "done" => reqs[s].status = 429

\* C18: a register or admin create-user request whose email or username
\* equals, ignoring case, that of an existing user is answered 400 and
\* changes neither the users nor the refresh tokens; a login whose email
\* equals, ignoring case, the email of a user is checked against that user.
C18_DuplicatesIgnoringCase ==
    [][\A s \in Slots :
         LET r == reqs[s]
             EmailOf == {u \in DOMAIN users :
                           toLowerCase(users[u].email) = toLowerCase(r.email)}
             NameOf == {u \in DOMAIN users :
                          toLowerCase(users[u].username) = toLowerCase(r.username)}
             Refused == /\ reqs'[s].pc = "done"
                        /\ reqs'[s].status = 400
                        /\ ~reqs'[s].wrote
                        /\ users' = users
                        /\ refreshTokens' = refreshTokens
         IN /\ (r.pc \in {"reg_email", "cu_email"} /\ reqs'[s] # r /\ EmailOf # {})
                 => Refused
            /\ (r.pc \in {"reg_uname", "cu_uname"} /\ reqs'[s] # r /\ NameOf # {})
                 => Refused
            /\ r.pc \in {"reg_create", "cu_create"} => EmailOf = {} /\ NameOf = {}
            /\ (r.pc = "login_email" /\ reqs'[s] # r /\ EmailOf # {})
                 => \E u \in EmailOf :
                      IF bcryptCompare(r.password, users[u].password)
                      THEN reqs'[s].pc = "login_delete" /\ reqs'[s].fid = u
                      ELSE reqs'[s].pc = "done" /\ reqs'[s].status = 401]_vars

\* A register naming the email of a user in other letter case was answered
\* 400 without a write.
C18_Witness ==
    \E s \in Answered :
      /\ reqs[s].kind = "register"
      /\ reqs[s].status = 400
      /\ ~reqs[s].wrote
      /\ \E u \in DOMAIN users :
           /\ users[u].email # reqs[s].email
           /\ toLowerCase(users[u].email) = toLowerCase(reqs[s].email)

\* C19: every user created by POST /api/auth/register has the role MEMBER,
\* whatever the body holds, a body with role "ADMIN" included.
C19_RegisterCreatesMember ==
    [][\A s \in Slots :
         (reqs'[s].kind = "register" /\ reqs'[s].pc # reqs[s].pc /\ users' # users)
           => /\ reqs[s].pc = "reg_create"
              /\ DOMAIN users' = DOMAIN users \cup {reqs'[s].fid}
              /\ reqs'[s].fid \notin DOMAIN users
              /\ users'[reqs'[s].fid].role = MEMBER
              /\ \A u \in DOMAIN users : users'[u] = users[u]]_vars

\* A register whose body carried role "ADMIN" has created its user, a MEMBER.
C19_Witness ==
    \E s \in Slots :
      /\ reqs[s].kind = "register"
      /\ reqs[s].pc = "reg_token"
      /\ reqs[s].role = ADMIN
      /\ reqs[s].fid \in DOMAIN users
      /\ users[reqs[s].fid].role = MEMBER

\* C20: over the clock, verifyToken returns the user id of an access token
\* at every instant less than 15 minutes after the token was issued and of a
\* refresh token at every instant less than 7 days after it was issued, and
\* null from the expiry instant on and for a malformed or wrongly signed
\* token.  Instants are in milliseconds; a token is issued at its iat.
C20_IssuedAtMs == {1000, 5000}
C20_AfterMs ==
    {0, 1, 999, 1000}
      \cup {AccessTTL * 1000 + d : d \in {-1000, -1, 0, 1, 999, 1000}}
      \cup {RefreshTTL * 1000 + d : d \in {-1000, -1, 0, 1, 999, 1000}}

C20_VerifyOverClock ==
    /\ \A u \in DOMAIN users, i \in C20_IssuedAtMs, d \in C20_AfterMs :
         LET a == generateAccessToken(u, NumericDate(i))
             r == generateRefreshToken(u, NumericDate(i))
             t == NumericDate(i + d)
         IN /\ verifyToken(a, t) = (IF d < AccessTTL * 1000 THEN u ELSE 0)
            /\ verifyToken(r, t) = (IF d < RefreshTTL * 1000 THEN u ELSE 0)
            /\ verifyToken(Garbage, t) = 0
            /\ verifyToken(Forged(u), t) = 0
            /\ verifyToken(NoToken, t) = 0
    /\ \A k \in DOMAIN refreshTokens :
         verifyToken(k, now) = (IF now - k.iat < RefreshTTL THEN k.userId ELSE 0)

\* The clock has passed the expiry of a stored refresh token, which no
\* longer verifies, and a request has been authenticated by a token that does.
C20_Witness ==
    /\ \E k \in DOMAIN refreshTokens :
         /\ k.sig = "ok"
         /\ now >= tokenExp(k)
         /\ verifyToken(k, now) = 0
    /\ \E s \in Slots : reqs[s].authUid # 0 /\ reqs[s].authUid \in DOMAIN users

\* C21: verifyToken returns the user id of a signed, unexpired token of
\* either kind, so authenticate treats a refresh token in the Authorization
\* Bearer header as it treats an access token: it attaches the identity of
\* the token's user and calls next.
C21_RefreshTokenAsBearer ==
    /\ \A u \in 1..(nextId - 1) :
         LET r == generateRefreshToken(u, now)
             a == generateAccessToken(u, now)
         IN /\ verifyToken(r, now) = u
            /\ verifyToken(a, now) = u
            /\ authenticate([scheme |-> "Bearer", token |-> r], now)
                 = authenticate([scheme |-> "Bearer", token |-> a], now)
            /\ u \in DOMAIN users
                 => /\ authenticate([scheme |-> "Bearer", token |-> r], now).next = 1
                    /\ authenticate([scheme |-> "Bearer", token |-> r], now).uid = u
    /\ \A s \in Slots :
         (/\ reqs[s].kind \in AuthKinds \cup TaskKinds
          /\ reqs[s].authType = "refresh"
          /\ reqs[s].pc # "auth_user")
           => IF reqs[s].authUid \in DOMAIN users
              THEN reqs[s].uid = reqs[s].authUid /\ reqs[s].nexts = 1
              ELSE s \in Answered /\ reqs[s].status = 401

\* A request that carried a refresh token as its Bearer token has run its
\* handler with the identity of the token's user and was answered 200.
C21_Witness ==
    \E s \in Answered :
      /\ reqs[s].kind \in AuthKinds \cup TaskKinds
      /\ reqs[s].authType = "refresh"
      /\ reqs[s].uid = reqs[s].authUid
      /\ reqs[s].uid \in DOMAIN users
      /\ reqs[s].handler
      /\ reqs[s].status = 200

\* C22: no user object in a response body has a password field: not the
\* user of register, login, /auth/me, the user list, user get, create and
\* update and profile update, nor the assignee embedded in a task.
C22_NoPasswordInBody ==
    \A s \in Slots :
      /\ \A o \in reqs[s].body :
           /\ "password" \notin DOMAIN o
           /\ DOMAIN o = {"email", "username", "role"}
      /\ (s \in Answered /\ reqs[s].status \in {200, 201}
            /\ reqs[s].kind \in {"register", "login", "me", "getUserById",
                                 "createUser", "updateProfile", "updateUser"})
           => Cardinality(reqs[s].body) = 1

\* A task list was answered with the assignee of a task, a user whose
\* password hash is in the store.
C22_Witness ==
    \E s \in Answered :
      /\ reqs[s].kind = "listTasks"
      /\ reqs[s].status = 200
      /\ \E o \in reqs[s].body :
           \E u \in DOMAIN users :
             /\ users[u].email = o.email
             /\ users[u].password = bcryptHash(AdminPassword)

\* C23: deleteUser, deleteRefreshToken and deleteRefreshTokensByUser applied
\* to an id, token or user without a row leave the store as it is and
\* answer with a boolean, never with an exception; applied a second time
\* they leave the store as the first application left it.
C23_DeletesIdempotent ==
    [][/\ \A id \in {reqs[s].target : s \in Slots} \cup {reqs[s].uid : s \in Slots}
                     \cup {reqs[s].fid : s \in Slots} :
            /\ id \notin DOMAIN users => deleteUser(id) = users
            /\ users' = deleteUser(id) => deleteUser(id)' = users'
            /\ TokensOf(id) = {} => deleteRefreshTokensByUser(id) = refreshTokens
            /\ refreshTokens' = deleteRefreshTokensByUser(id)
                 => deleteRefreshTokensByUser(id)' = refreshTokens'
       /\ \A k \in {reqs[s].cookie : s \in Slots} \cup DOMAIN refreshTokens :
            /\ k \notin DOMAIN refreshTokens => deleteRefreshToken(k) = refreshTokens
            /\ refreshTokens' = deleteRefreshToken(k)
                 => deleteRefreshToken(k)' = refreshTokens'
       /\ \A s \in Slots :
            /\ (reqs[s].pc = "del_user" /\ reqs'[s].pc # "del_user")
                 => /\ initialized
                    /\ IF reqs[s].target \in DOMAIN users
                       THEN reqs'[s].pc = "del_tokens"
                       ELSE /\ reqs'[s].pc = "done" /\ reqs'[s].status = 404
                            /\ users' = users
            /\ (reqs[s].pc \in {"out_token", "ref_delete"}
                  /\ reqs'[s].pc # reqs[s].pc
                  /\ reqs[s].cookie \notin DOMAIN refreshTokens)
                 => /\ initialized
                    /\ refreshTokens' = refreshTokens
                    /\ reqs'[s].status # 500
            /\ (reqs[s].pc \in {"out_all", "login_delete", "del_tokens"}
                  /\ reqs'[s].pc # reqs[s].pc)
                 => /\ initialized
                    /\ reqs'[s].status # 500]_vars

\* A DELETE for an id without a user was answered 404 by the handler and
\* changed no store, while the store has users.
C23_Witness ==
    \E s \in Answered :
      /\ reqs[s].kind = "deleteUser"
      /\ reqs[s].handler
      /\ reqs[s].status = 404
      /\ ~reqs[s].wrote
      /\ users # <<>>

\* C24: an ADMIN-only route decides by the role the store holds for the user
\* of the token when the request is authenticated, not by the role the user
\* had when the token was issued: once the role of U is MEMBER, a request
\* with a token of U is answered 403 and its handler does not run.
C24_CurrentRoleDecides ==
    [][\A s \in Slots :
         (/\ reqs[s].pc = "auth_user" /\ reqs'[s].pc # "auth_user"
          /\ reqs[s].kind \in AdminKinds \cup TaskKinds
          /\ reqs[s].authUid \in DOMAIN users)
           => IF users[reqs[s].authUid].role = ADMIN
              THEN /\ reqs'[s].handler
                   /\ reqs'[s].urole = ADMIN
                   /\ reqs'[s].status # 403
              ELSE /\ reqs'[s].pc = "done"
                   /\ reqs'[s].status = 403
                   /\ ~reqs'[s].handler
                   /\ users' = users /\ tasks' = tasks]_vars

\* The seeded admin, whose role a PATCH has set to MEMBER, was answered 403
\* on an ADMIN-only route.
C24_Witness ==
    \E s \in Answered :
      /\ reqs[s].kind \in AdminKinds \cup TaskKinds
      /\ reqs[s].authUid = 1
      /\ reqs[s].status = 403
      /\ 1 \in DOMAIN users
      /\ users[1].role = MEMBER

\* C25: the role of a user is written only by the seeding of the admin, by
\* register (always MEMBER) and by POST /api/users and PATCH /api/users/:id,
\* which run only for a caller whose role is ADMIN; PATCH /api/users/profile
\* never changes a role, whatever its body holds.  So no MEMBER becomes
\* ADMIN by requests that are unauthenticated or authenticated as MEMBER.
C25_RoleWriters ==
    [][\A u \in DOMAIN users' :
         LET Admins == {s \in Slots : /\ reqs[s].urole = ADMIN
                                      /\ reqs[s].uid \in DOMAIN users
                                      /\ users[reqs[s].uid].role = ADMIN}
         IN /\ (u \in DOMAIN users /\ users'[u].role # users[u].role)
                 => \E s \in Admins : /\ reqs[s].kind = "updateUser"
                                      /\ reqs[s].pc = "uu_update"
                                      /\ reqs[s].target = u
            /\ u \notin DOMAIN users
                 => \/ /\ seedBy # 0 /\ seedBy' = 0
                       /\ users'[u].role = ADMIN
                    \/ /\ \E s \in Slots : /\ reqs[s].kind = "register"
                                           /\ reqs[s].pc = "reg_create"
                                           /\ reqs'[s].fid = u
                       /\ users'[u].role = MEMBER
                    \/ \E s \in Admins : /\ reqs[s].kind = "createUser"
                                         /\ reqs[s].pc = "cu_create"
                                         /\ reqs'[s].ruid = u]_vars

\* A MEMBER's profile update whose body carried role "ADMIN" was answered
\* 200, has written the user, and the user is still a MEMBER.
C25_Witness ==
    \E s \in Answered :
      /\ reqs[s].kind = "updateProfile"
      /\ reqs[s].status = 200
      /\ reqs[s].role = ADMIN
      /\ reqs[s].wrote
      /\ reqs[s].urole = MEMBER
      /\ users[reqs[s].uid].role = MEMBER

\* C26: a logout authenticated as user A deletes no refresh token of another
\* user: every row owned by a user other than A that was in the store before
\* a step of the logout is still there after it, whatever the cookie holds.
C26_LogoutKeepsOthersTokens ==
    [][\A s \in Slots :
         (/\ reqs[s].kind = "logout"
          /\ reqs[s].pc \in {"out_token", "out_all"}
          /\ reqs'[s].pc # reqs[s].pc)
           => \A k \in DOMAIN refreshTokens :
                refreshTokens[k].userId # reqs[s].uid
                  => /\ k \in DOMAIN refreshTokens'
                     /\ refreshTokens'[k] = refreshTokens[k]]_vars

\* The logins that were answered with a failure: an invalid body (400), or
\* an unknown email or a wrong password (401).
FailedLogins ==
    {s \in Answered : reqs[s].kind = "login" /\ reqs[s].status \in {ZodError, 401}}

\* C27 as stated: a login that fails leaves the user store and the
\* refresh-token store as they were when it arrived.
C27_FailedLoginChangesNoStore ==
    \A s \in FailedLogins : ~reqs[s].wrote /\ ~reqs[s].seeded

\* C27 amended: a login that fails writes to no store, so the refresh tokens
\* of the user it named are kept, and the user store changes during it only
\* by the seeding of the default admin, which runs when the login's
\* getUserByEmail is the first store call of the process; a login with an
\* invalid body makes no store call at all.
C27_FailedLoginWritesNothing ==
    \A s \in FailedLogins :
      /\ ~reqs[s].wrote
      /\ reqs[s].seeded => reqs[s].status = 401 /\ reqs[s].handler /\ users # <<>>
      /\ reqs[s].status = ZodError => ~reqs[s].handler

\* A login with a wrong password for a user who holds a refresh token has
\* been answered 401, and the token is still stored.
C27_Witness ==
    \E s \in FailedLogins :
      /\ reqs[s].status = 401
      /\ ~reqs[s].wrote
      /\ getUserByEmail(reqs[s].email) # 0
      /\ TokensOf(getUserByEmail(reqs[s].email)) # {}

\* The users whose stored role is ADMIN.
AdminUsers == {u \in DOMAIN users : users[u].role = ADMIN}

C29_ConflictOnlyWithOthers ==
    [][\A s \in Slots :
         (/\ reqs[s].kind = "updateProfile"
          /\ reqs[s].newPassword = Absent
          /\ reqs'[s].pc = "done" /\ reqs'[s].status = 400)
           => /\ reqs[s].pc = "pf_email"
                   => \E u \in DOMAIN users \ {reqs[s].uid} :
                        toLowerCase(users[u].email) = toLowerCase(reqs[s].email)
              /\ reqs[s].pc = "pf_uname"
                   => \E u \in DOMAIN users \ {reqs[s].uid} :
                        toLowerCase(users[u].username) = toLowerCase(reqs[s].username)]_vars

\* C30: a call of fetchWithAuth returns after at most one refresh and at
\* most one retry: it sends /auth/refresh exactly when the first response is
\* 401; with the new token, which it has stored, it sends the request once
\* more under that token and returns what handleResponse makes of the second
\* response, a 401 included; without a new token it sends nothing more and
\* throws the first 401 as an ApiError; and every call returns.
C30_Bounded ==
    /\ client.refreshes <= 1
    /\ client.fetches <= 2
    /\ client.pc \notin {"idle", "first"} /\ client.thrown # "TypeError"
         => (client.refreshes = 1 <=> client.first = 401)
    /\ client.refreshes = 1 => client.first = 401
    /\ client.fetches = 2
         => /\ client.refreshes = 1
            /\ client.newToken \in AccessTokens
            /\ client.retryHeaders = client.newToken
            /\ localStorage = client.newToken
    /\ (client.pc \in Returned /\ client.fetches = 2 /\ client.thrown # "TypeError")
         => /\ client.status = client.second
            /\ client.pc = (IF ok(client.second) THEN "resolved" ELSE "rejected")
            /\ ~ok(client.second) => client.thrown = "ApiError"
    /\ (client.pc \in Returned /\ client.refreshes = 1 /\ client.fetches = 1)
         => /\ client.newToken = NoToken
            /\ client.pc = "rejected" /\ client.thrown = "ApiError"
            /\ client.status = 401

C30_OneRefreshOneRetry ==
    /\ []C30_Bounded
    /\ (client.pc \in {"first", "refresh", "retry"}) ~> (client.pc \in Returned)

\* A call whose first response was 401 has refreshed, sent the request again
\* under the new token, and thrown the 401 of the second response.
C30_Witness ==
    /\ client.pc = "rejected" /\ client.thrown = "ApiError" /\ client.status = 401
    /\ client.first = 401 /\ client.second = 401
    /\ client.refreshes = 1 /\ client.fetches = 2
    /\ client.retryHeaders # client.headers

====
